---- MODULE Spec2Model ----
(***************************************************************************)
(* Model of the MovieRecommenderSystem repository:                         *)
(*   src/movie_lens.py   MovieLens: rating store, similarity metrics,      *)
(*                       neighbour prediction, average rankings            *)
(*   src/svd.py          initialize / factor: SGD matrix factorization     *)
(*   src/recommender.py  Recommender: build / predict_ranking / top_rated  *)
(*                                                                         *)
(* Python floats are modelled as fixed-point integers: the integer v       *)
(* stands for the real v / SCALE.  Integer scores, sums and counts are     *)
(* kept exact.                                                             *)
(***************************************************************************)
EXTENDS Integers, Sequences, FiniteSets, TLC

\* ------------------------------------------------------------------ bounds
MaxUser == 2
MaxMovie == 2
MaxRating == 2
MaxN == 2

\* resolution of the fixed-point representation of a Python float
SCALE == 1000

UserIds == 1..MaxUser
MovieIds == 1..MaxMovie
\* ids a caller may pass: one id more than any the data files hold
UserArgs == 1..(MaxUser + 1)
MovieArgs == 1..(MaxMovie + 1)
Ratings == 1..MaxRating

\* metric names a caller may pass; "cosine" is not in the metrics table
MetricArgs == {"euclidean", "pearson", "cosine"}
PrefsArgs == {"critics", "movies", "genres"}
\* the n=None default of similar_critics / similar_items / predict_all_rankings
NoneN == -1
NArgs == {NoneN} \cup (0..MaxN)

VARIABLES
    movies,     \* MovieLens.movies: the keys of the dict, in insertion order
    reviews,    \* MovieLens.reviews: user_id -> (movie_id -> rating)
    users,      \* the keys of MovieLens.reviews, in insertion order
    result,     \* the outcome of the call in progress, as the caller sees it
    recommender,\* the Recommender object: users, movies, reviews, model
    R, P, Q,    \* factor: the matrix being factorized and the two factors
    K, steps, alpha, beta,  \* factor: its parameters
    step,       \* factor: sweeps completed
    e,          \* factor: the error computed by the last sweep
    pc          \* factor: where the call stands

storeVars == <<movies, reviews, users>>
factorVars == <<recommender, R, P, Q, K, steps, alpha, beta, step, e, pc>>
vars == <<movies, reviews, users, result, recommender,
          R, P, Q, K, steps, alpha, beta, step, e, pc>>

\* ---------------------------------------------------------------- helpers
Min(a, b) == IF a <= b THEN a ELSE b
Abs(a) == IF a < 0 THEN 0 - a ELSE a
Range(s) == {s[i] : i \in 1..Len(s)}

\* all orders (sequences without repetition) of the finite set S
Perms(S) == {s \in [1..Cardinality(S) -> S] : Range(s) = S}

RECURSIVE AscSeq(_)
\* the elements of a finite set of integers in ascending order
AscSeq(S) ==
    IF S = {} THEN <<>>
    ELSE LET m == CHOOSE x \in S : \A y \in S : x <= y
         IN <<m>> \o AscSeq(S \ {m})

RECURSIVE SumOver(_, _)
\* sum of f[x] over the finite set S
SumOver(f, S) ==
    IF S = {} THEN 0
    ELSE LET x == CHOOSE y \in S : TRUE
         IN f[x] + SumOver(f, S \ {x})

RECURSIVE ISqrt(_)
\* floor of the square root of a natural number
ISqrt(n) ==
    IF n < 2 THEN n
    ELSE LET r == 2 * ISqrt(n \div 4)
         IN IF (r + 1) * (r + 1) <= n THEN r + 1 ELSE r

\* math.sqrt of an exact integer, as a fixed-point float
Sqrt(n) == ISqrt(n * SCALE * SCALE)

\* outcomes of a call: a returned value or a raised exception
Ok(v) == [kind |-> "ok", err |-> "", val |-> v]
Raise(exc) == [kind |-> "error", err |-> exc, val |-> 0]

NoResult == [op |-> "none", args |-> <<>>, kind |-> "none", err |-> "", val |-> 0]
Called(op, args, out) ==
    [op |-> op, args |-> args, kind |-> out.kind, err |-> out.err, val |-> out.val]

Idle == result.op = "none"

\* returned collections: a dict (keys -> values) or a list (a sequence)
Dict(f) == [type |-> "dict", items |-> f]
List(seq) == [type |-> "list", items |-> seq]

\* ------------------------------------------------------------ heapq.nlargest
\* key=itemgetter(1): the second component of a tuple
Key(x) == x[2]

\* x put into a list sorted by descending key, after every element whose key
\* is at least its own (equal keys keep their order of arrival)
InsertDesc(sorted, x) ==
    LET k == Cardinality({i \in 1..Len(sorted) : Key(sorted[i]) >= Key(x)})
    IN SubSeq(sorted, 1, k) \o <<x>> \o SubSeq(sorted, k + 1, Len(sorted))

RECURSIVE SortDesc(_, _)
SortDesc(seq, k) ==
    IF k = 0 THEN <<>> ELSE InsertDesc(SortDesc(seq, k - 1), seq[k])

\* heapq.nlargest(n, seq, key=itemgetter(1)):
\* sorted(seq, key=key, reverse=True)[:n]
NLargest(n, seq) ==
    IF n <= 0 THEN <<>>
    ELSE SubSeq(SortDesc(seq, Len(seq)), 1, Min(n, Len(seq)))

\* dict.items() of a mapping whose keys are listed in `order`
Items(order, f) == [i \in 1..Len(order) |-> <<order[i], f[order[i]]>>]

\* =================================================================== MovieLens
\* load_dataset: the store built from the rows of u.item (in file order) and
\* the rows of u.data (table[u, m] = 0: no row for the pair)
LoadMovies(order) == order
LoadReviews(table, U, M) ==
    LET rated(u) == {m \in M : table[<<u, m>>] > 0}
    IN [u \in {v \in U : rated(v) # {}} |-> [m \in rated(u) |-> table[<<u, m>>]]]

MovieSet == Range(movies)
UserSet == DOMAIN reviews

\* reviews_for_movie: the users whose reviews hold the movie
ReviewsForMovie(movie_id) == {u \in DOMAIN reviews : movie_id \in DOMAIN reviews[u]}
RatingSum(movie_id) ==
    SumOver([u \in ReviewsForMovie(movie_id) |-> reviews[u][movie_id]],
            ReviewsForMovie(movie_id))
RatingCount(movie_id) == Cardinality(ReviewsForMovie(movie_id))

\* average_reviews, run to its end: sum(reviews) / float(len(reviews)) for
\* every movie of the metadata, in its order
AverageReviewsOut ==
    IF \E i \in 1..Len(movies) : RatingCount(movies[i]) = 0
    THEN Raise("ZeroDivisionError")
    ELSE Ok([i \in 1..Len(movies) |->
              <<movies[i],
                (RatingSum(movies[i]) * SCALE) \div RatingCount(movies[i]),
                RatingCount(movies[i])>>])

\* top_rated: heapq.nlargest draws nothing from the generator when n <= 0
TopRatedOut(n) ==
    IF n <= 0 THEN Ok(List(<<>>))
    ELSE IF AverageReviewsOut.kind = "error" THEN AverageReviewsOut
    ELSE Ok(List(NLargest(n, AverageReviewsOut.val)))

\* bayesian_average, run to its end
BayesianAverageOut(c, m) ==
    IF \E i \in 1..Len(movies) : c + RatingCount(movies[i]) = 0
    THEN Raise("ZeroDivisionError")
    ELSE Ok([i \in 1..Len(movies) |->
              <<movies[i],
                ((c * m + RatingSum(movies[i])) * SCALE)
                    \div (c + RatingCount(movies[i])),
                RatingCount(movies[i])>>])

BayesianTopRatedOut(n, c, m) ==
    IF n <= 0 THEN Ok(List(<<>>))
    ELSE IF BayesianAverageOut(c, m).kind = "error" THEN BayesianAverageOut(c, m)
    ELSE Ok(List(NLargest(n, BayesianAverageOut(c, m).val)))

\* shared_preferences: movie_id -> (rating of critic_a, rating of critic_b)
SharedPreferencesOut(critic_a, critic_b) ==
    IF critic_a \notin DOMAIN reviews THEN Raise("Couldn't find critic")
    ELSE IF critic_b \notin DOMAIN reviews THEN Raise("Couldn't find critic")
    ELSE Ok([m \in DOMAIN reviews[critic_a] \cap DOMAIN reviews[critic_b] |->
              <<reviews[critic_a][m], reviews[critic_b][m]>>])

\* shared_critics: critic -> (rating of movie_a, rating of movie_b)
SharedCriticsOut(movie_a, movie_b) ==
    IF movie_a \notin MovieSet THEN Raise("Couldn't find movie")
    ELSE IF movie_b \notin MovieSet THEN Raise("Couldn't find movie")
    ELSE Ok([c \in ReviewsForMovie(movie_a) \cap ReviewsForMovie(movie_b) |->
              <<reviews[c][movie_a], reviews[c][movie_b]>>])

\* the prefs switch at the head of both metrics
PreferencesOut(a, b, prefs) ==
    IF prefs = "critics" THEN SharedPreferencesOut(a, b)
    ELSE IF prefs = "movies" THEN SharedCriticsOut(a, b)
    ELSE Raise("Unknown preference type")

\* euclidean_distance
EuclideanDistanceOut(a, b, prefs) ==
    LET p == PreferencesOut(a, b, prefs)
    IN IF p.kind = "error" THEN p
       ELSE IF DOMAIN p.val = {} THEN Ok(0)
       ELSE LET sum_of_squares ==
                    SumOver([k \in DOMAIN p.val |->
                                (p.val[k][1] - p.val[k][2]) * (p.val[k][1] - p.val[k][2])],
                            DOMAIN p.val)
            IN Ok((SCALE * SCALE) \div (SCALE + Sqrt(sum_of_squares)))

\* the sums pearson_correlation accumulates over preferences.values()
Length(p) == Cardinality(DOMAIN p)
SumA(p) == SumOver([k \in DOMAIN p |-> p[k][1]], DOMAIN p)
SumB(p) == SumOver([k \in DOMAIN p |-> p[k][2]], DOMAIN p)
SumSquareA(p) == SumOver([k \in DOMAIN p |-> p[k][1] * p[k][1]], DOMAIN p)
SumSquareB(p) == SumOver([k \in DOMAIN p |-> p[k][2] * p[k][2]], DOMAIN p)
SumProduct(p) == SumOver([k \in DOMAIN p |-> p[k][1] * p[k][2]], DOMAIN p)

Numerator(p) == (SumProduct(p) * Length(p)) - (SumA(p) * SumB(p))
\* the first variance term, had the sum of squares not been scaled by length
VarianceA_Unscaled(p) == SumSquareA(p) - (SumA(p) * SumA(p))
VarianceA(p) == (SumSquareA(p) * Length(p)) - (SumA(p) * SumA(p))
VarianceB(p) == (SumSquareB(p) * Length(p)) - (SumB(p) * SumB(p))

\* pearson_correlation; math.sqrt raises ValueError on a negative argument
PearsonCorrelationOut(a, b, prefs) ==
    LET p == PreferencesOut(a, b, prefs)
    IN IF p.kind = "error" THEN p
       ELSE IF Length(p.val) = 0 THEN Ok(0)
       ELSE IF VarianceA(p.val) * VarianceB(p.val) < 0 THEN Raise("ValueError")
       ELSE LET denominator == Sqrt(VarianceA(p.val) * VarianceB(p.val))
            IN IF denominator = 0 THEN Ok(0)
               ELSE Ok((Abs(Numerator(p.val)) * SCALE * SCALE) \div denominator)

\* the metrics table of similar_critics / similar_items
Metrics == {"euclidean", "pearson"}
DistanceOut(metric, a, b, prefs) ==
    IF metric = "euclidean" THEN EuclideanDistanceOut(a, b, prefs)
    ELSE PearsonCorrelationOut(a, b, prefs)

\* similar_critics
SimilarCriticsOut(user, metric, n) ==
    IF user \notin DOMAIN reviews THEN Raise("Unknown user")
    ELSE IF metric \notin Metrics THEN Raise("Unknown or unrealized distance metric")
    ELSE LET critics == [critic \in DOMAIN reviews \ {user} |->
                            DistanceOut(metric, user, critic, "critics").val]
             order == SelectSeq(users, LAMBDA critic : critic # user)
         IN IF n # NoneN /\ n # 0
            THEN Ok(List(NLargest(n, Items(order, critics))))
            ELSE Ok(Dict(critics))

\* similar_items: the guard looks the movie up in self.reviews
SimilarItemsOut(movie, metric, n) ==
    IF movie \notin DOMAIN reviews THEN Raise("Unknown movie")
    ELSE IF metric \notin Metrics THEN Raise("Unknown or unrealized distance metric")
    ELSE LET order == SelectSeq(movies, LAMBDA item : item # movie)
         IN IF \E i \in 1..Len(order) :
                   DistanceOut(metric, order[i], movie, "movies").kind = "error"
            THEN DistanceOut(metric, order[1], movie, "movies")
            ELSE LET items == [item \in Range(order) |->
                                  DistanceOut(metric, item, movie, "movies").val]
                 IN IF n # NoneN /\ n # 0
                    THEN Ok(List(NLargest(n, Items(order, items))))
                    ELSE Ok(Dict(items))

\* the loop of predict_ranking_user_based over critics.items()
WeightedAverage(critics, movie) ==
    LET raters == {c \in DOMAIN critics :
                      c \in DOMAIN reviews /\ movie \in DOMAIN reviews[c]}
        total == SumOver([c \in raters |-> critics[c] * reviews[c][movie]], raters)
        sim_sum == SumOver([c \in raters |-> critics[c]], raters)
    IN IF sim_sum = 0 THEN 0 ELSE (total * SCALE) \div sim_sum

\* critics = critics or self.similar_critics(user, metric=metric)
\* (None and the empty dict are both false)
NoCritics == [given |-> FALSE, map |-> <<>>]
Supplied(map) == [given |-> TRUE, map |-> map]
CriticsOut(user, metric, critics) ==
    IF critics.given /\ DOMAIN critics.map # {} THEN Ok(Dict(critics.map))
    ELSE SimilarCriticsOut(user, metric, NoneN)

\* predict_ranking_user_based, its return value
PredictRankingUserBasedOut(user, movie, metric, critics) ==
    LET c == CriticsOut(user, metric, critics)
    IN IF c.kind = "error" THEN c ELSE Ok(WeightedAverage(c.val.items, movie))

\* self.reviews is a defaultdict(dict): self.reviews[k] inserts k when absent
Touch(rv, keys) ==
    [u \in DOMAIN rv \cup keys |-> IF u \in DOMAIN rv THEN rv[u] ELSE <<>>]
TouchOrder(order, rv, keys) == order \o AscSeq(keys \ DOMAIN rv)

\* the keys predict_ranking_user_based looks up in self.reviews
UserBasedTouched(user, metric, critics) ==
    LET c == CriticsOut(user, metric, critics)
    IN IF c.kind = "error" THEN {} ELSE DOMAIN c.val.items

\* predict_ranking_item_based, its return value
PredictRankingItemBasedOut(user, movie, metric) ==
    LET ms == SimilarItemsOut(movie, metric, NoneN)
    IN IF ms.kind = "error" THEN ms
       ELSE LET rated == {r \in DOMAIN ms.val.items :
                             user \in DOMAIN reviews /\ r \in DOMAIN reviews[user]}
                total == SumOver([r \in rated |-> ms.val.items[r] * reviews[user][r]],
                                 rated)
                sim_sum == SumOver([r \in rated |-> ms.val.items[r]], rated)
            IN Ok(IF sim_sum = 0 THEN 0 ELSE (total * SCALE) \div sim_sum)

\* the keys predict_ranking_item_based looks up in self.reviews
ItemBasedTouched(user, movie, metric) ==
    LET ms == SimilarItemsOut(movie, metric, NoneN)
    IN IF ms.kind = "ok" /\ DOMAIN ms.val.items # {} THEN {user} ELSE {}

\* predict_all_rankings, had it walked the movies in ascending id order
PredictAllRankingsOut_ByAscendingId(user, metric, n) ==
    LET critics == SimilarCriticsOut(user, metric, NoneN)
    IN IF critics.kind = "error" THEN critics
       ELSE LET preds == [movie \in MovieSet |->
                             PredictRankingUserBasedOut(
                                 user, movie, metric, Supplied(critics.val.items)).val]
            IN IF n # NoneN /\ n # 0
               THEN Ok(List(NLargest(n, Items(AscSeq(MovieSet), preds))))
               ELSE Ok(Dict(preds))

\* predict_all_rankings
PredictAllRankingsOut(user, metric, n) ==
    LET critics == SimilarCriticsOut(user, metric, NoneN)
    IN IF critics.kind = "error" THEN critics
       ELSE LET preds == [movie \in MovieSet |->
                             PredictRankingUserBasedOut(
                                 user, movie, metric, Supplied(critics.val.items)).val]
            IN IF n # NoneN /\ n # 0
               THEN Ok(List(NLargest(n, Items(movies, preds))))
               ELSE Ok(Dict(preds))

\* ------------------------------------------------------- MovieLens: actions
\* values a caller may pass as neighbour scores, and the mappings built of them
MaxCritics == 2
SimArgs == {0, SCALE \div 2, SCALE}
CriticsMaps ==
    UNION {[S -> SimArgs] : S \in {T \in SUBSET UserArgs : Cardinality(T) <= MaxCritics}}
CriticsArgs == {NoCritics} \cup {Supplied(f) : f \in CriticsMaps}

\* the c and m a caller may pass to the Bayesian average (defaults 59 and 3)
DefaultC == 59
DefaultM == 3
CArgs == {0, DefaultC}

SharedPreferences(critic_a, critic_b) ==
    /\ Idle
    /\ result' = Called("shared_preferences", [a |-> critic_a, b |-> critic_b],
                        SharedPreferencesOut(critic_a, critic_b))
    /\ UNCHANGED <<storeVars, factorVars>>

SharedCritics(movie_a, movie_b) ==
    /\ Idle
    /\ result' = Called("shared_critics", [a |-> movie_a, b |-> movie_b],
                        SharedCriticsOut(movie_a, movie_b))
    /\ UNCHANGED <<storeVars, factorVars>>

EuclideanDistance(a, b, prefs) ==
    /\ Idle
    /\ result' = Called("euclidean_distance", [a |-> a, b |-> b, prefs |-> prefs],
                        EuclideanDistanceOut(a, b, prefs))
    /\ UNCHANGED <<storeVars, factorVars>>

PearsonCorrelation(a, b, prefs) ==
    /\ Idle
    /\ result' = Called("pearson_correlation", [a |-> a, b |-> b, prefs |-> prefs],
                        PearsonCorrelationOut(a, b, prefs))
    /\ UNCHANGED <<storeVars, factorVars>>

SimilarCritics(user, metric, n) ==
    /\ Idle
    /\ result' = Called("similar_critics", [user |-> user, metric |-> metric, n |-> n],
                        SimilarCriticsOut(user, metric, n))
    /\ UNCHANGED <<storeVars, factorVars>>

SimilarItems(movie, metric, n) ==
    /\ Idle
    /\ result' = Called("similar_items", [movie |-> movie, metric |-> metric, n |-> n],
                        SimilarItemsOut(movie, metric, n))
    /\ UNCHANGED <<storeVars, factorVars>>

PredictRankingUserBased(user, movie, metric, critics) ==
    /\ Idle
    /\ result' = Called("predict_ranking_user_based",
                        [user |-> user, movie |-> movie, metric |-> metric,
                         critics |-> critics],
                        PredictRankingUserBasedOut(user, movie, metric, critics))
    /\ reviews' = Touch(reviews, UserBasedTouched(user, metric, critics))
    /\ users' = TouchOrder(users, reviews, UserBasedTouched(user, metric, critics))
    /\ UNCHANGED <<movies, factorVars>>

PredictRankingItemBased(user, movie, metric) ==
    /\ Idle
    /\ result' = Called("predict_ranking_item_based",
                        [user |-> user, movie |-> movie, metric |-> metric],
                        PredictRankingItemBasedOut(user, movie, metric))
    /\ reviews' = Touch(reviews, ItemBasedTouched(user, movie, metric))
    /\ users' = TouchOrder(users, reviews, ItemBasedTouched(user, movie, metric))
    /\ UNCHANGED <<movies, factorVars>>

PredictAllRankings(user, metric, n) ==
    /\ Idle
    /\ result' = Called("predict_all_rankings",
                        [user |-> user, metric |-> metric, n |-> n],
                        PredictAllRankingsOut(user, metric, n))
    /\ UNCHANGED <<storeVars, factorVars>>

AverageReviews ==
    /\ Idle
    /\ result' = Called("average_reviews", <<>>, AverageReviewsOut)
    /\ UNCHANGED <<storeVars, factorVars>>

TopRated(n) ==
    /\ Idle
    /\ result' = Called("top_rated", [n |-> n], TopRatedOut(n))
    /\ UNCHANGED <<storeVars, factorVars>>

BayesianAverage(c, m) ==
    /\ Idle
    /\ result' = Called("bayesian_average", [c |-> c, m |-> m], BayesianAverageOut(c, m))
    /\ UNCHANGED <<storeVars, factorVars>>

BayesianTopRated(n, c, m) ==
    /\ Idle
    /\ result' = Called("bayesian_top_rated", [n |-> n, c |-> c, m |-> m],
                        BayesianTopRatedOut(n, c, m))
    /\ UNCHANGED <<storeVars, factorVars>>

\* the caller takes the returned value (or the exception) and goes on
Consume ==
    /\ ~Idle
    /\ pc = "idle"
    /\ result' = NoResult
    /\ UNCHANGED <<storeVars, factorVars>>

\* the factorization is not in use while the store is queried
FactorUnused ==
    /\ recommender = <<>>
    /\ R = <<>> /\ P = <<>> /\ Q = <<>>
    /\ K = 0 /\ steps = 0 /\ alpha = <<0, 1>> /\ beta = <<0, 1>>
    /\ step = 0 /\ e = 0 /\ pc = "idle"

\* MovieLens(udata, uitem): __init__ and load_dataset
Init ==
    /\ \E table \in [UserIds \X MovieIds -> 0..MaxRating] :
          /\ reviews = LoadReviews(table, UserIds, MovieIds)
          /\ users = AscSeq(DOMAIN LoadReviews(table, UserIds, MovieIds))
    /\ \E order \in Perms(MovieIds) : movies = LoadMovies(order)
    /\ result = NoResult
    /\ FactorUnused

Next ==
    \/ \E a, b \in UserArgs : SharedPreferences(a, b)
    \/ \E a, b \in MovieArgs : SharedCritics(a, b)
    \/ \E a, b \in UserArgs \cup MovieArgs, prefs \in PrefsArgs : EuclideanDistance(a, b, prefs)
    \/ \E a, b \in UserArgs \cup MovieArgs, prefs \in PrefsArgs : PearsonCorrelation(a, b, prefs)
    \/ \E user \in UserArgs, metric \in MetricArgs, n \in NArgs :
          SimilarCritics(user, metric, n)
    \/ \E movie \in MovieArgs, metric \in MetricArgs, n \in NArgs :
          SimilarItems(movie, metric, n)
    \/ \E user \in UserArgs, movie \in MovieArgs, metric \in MetricArgs,
          critics \in CriticsArgs :
          PredictRankingUserBased(user, movie, metric, critics)
    \/ \E user \in UserArgs, movie \in MovieArgs, metric \in MetricArgs :
          PredictRankingItemBased(user, movie, metric)
    \/ \E user \in UserArgs, metric \in MetricArgs, n \in NArgs :
          PredictAllRankings(user, metric, n)
    \/ AverageReviews
    \/ \E n \in 0..MaxN : TopRated(n)
    \/ \E c \in CArgs : BayesianAverage(c, DefaultM)
    \/ \E n \in 0..MaxN, c \in CArgs : BayesianTopRated(n, c, DefaultM)
    \/ Consume

Spec == Init /\ [][Next]_vars

\* ============================================================ claims: store
UnknownEntityErrors ==
    {"Unknown user", "Unknown movie", "Couldn't find critic", "Couldn't find movie"}
UnknownMetricError == "Unknown or unrealized distance metric"

\* C1: no query operation changes the set of user ids of the store or any
\* user's ratings, whether it succeeds or fails and whatever ids it is given.
C1_QueriesLeaveStoreUnchanged == [][reviews' = reviews]_vars

\* the items of the metadata that hold at least one rating
RatedItems == {m \in MovieSet : RatingCount(m) > 0}

\* C2: for every store and every n >= 0, top_rated(n) returns a list sorted in
\* descending order of simple average rating, of length min(n, number of items
\* with at least one rating), also when the metadata holds unrated items.
C2_TopRatedSortedAndSized ==
    result.op = "top_rated" =>
        /\ result.kind = "ok"
        /\ Len(result.val.items) = Min(result.args.n, Cardinality(RatedItems))
        /\ \A i \in 1..Len(result.val.items) :
              /\ result.val.items[i][1] \in RatedItems
              /\ result.val.items[i][2] =
                    (RatingSum(result.val.items[i][1]) * SCALE)
                        \div RatingCount(result.val.items[i][1])
        /\ \A i, j \in 1..Len(result.val.items) :
              i < j => result.val.items[i][2] >= result.val.items[j][2]

\* C3: similar_critics / similar_items with a supported metric and no n fail
\* with the unknown-entity error when the entity is absent from the store in
\* its dimension, and for an entity that is present return a mapping whose
\* keys are exactly the other entities of the dimension, each mapped to its
\* similarity with the entity.
C3_RankNeighbors ==
    /\ (result.op = "similar_critics" /\ result.args.metric \in Metrics
            /\ result.args.n = NoneN) =>
          IF result.args.user \notin UserSet
          THEN result.kind = "error" /\ result.err \in UnknownEntityErrors
          ELSE /\ result.kind = "ok"
               /\ result.val.type = "dict"
               /\ DOMAIN result.val.items = UserSet \ {result.args.user}
               /\ \A c \in UserSet \ {result.args.user} :
                     result.val.items[c] =
                        DistanceOut(result.args.metric, result.args.user, c, "critics").val
    /\ (result.op = "similar_items" /\ result.args.metric \in Metrics
            /\ result.args.n = NoneN) =>
          IF result.args.movie \notin MovieSet
          THEN result.kind = "error" /\ result.err \in UnknownEntityErrors
          ELSE /\ result.kind = "ok"
               /\ result.val.type = "dict"
               /\ DOMAIN result.val.items = MovieSet \ {result.args.movie}
               /\ \A m \in MovieSet \ {result.args.movie} :
                     result.val.items[m] =
                        DistanceOut(result.args.metric, result.args.movie, m, "movies").val

MetricOps ==
    {"similar_critics", "similar_items", "predict_ranking_user_based",
     "predict_ranking_item_based", "predict_all_rankings"}

\* C4: every operation that takes a metric name fails when the name is neither
\* 'euclidean' nor 'pearson': it never returns a result for an unsupported
\* metric name (with or without a supplied neighbour-score mapping).
C4_UnknownMetricFails ==
    (result.op \in MetricOps /\ result.args.metric \notin Metrics) =>
        result.kind = "error"

\* the neighbour set C5 speaks of: the supplied mapping, the empty one
\* included, or else the one similar_critics computes
ClaimedNeighbors ==
    IF result.args.critics.given THEN result.args.critics.map
    ELSE SimilarCriticsOut(result.args.user, result.args.metric, NoneN).val.items

\* C5: for a known user, any item and any neighbour set (computed by
\* similar_critics, or supplied by the caller, the empty mapping included),
\* predict_ranking_user_based returns sum(similarity * rating) / sum(similarity)
\* over exactly the critics of that set who rated the item, and 0.0 when no
\* critic of that set has rated the item.  (Stated for the supported metrics.)
C5_UserBasedWeightedAverage ==
    (/\ result.op = "predict_ranking_user_based"
     /\ result.args.user \in UserSet
     /\ result.args.metric \in Metrics) =>
        /\ result.kind = "ok"
        /\ result.val = WeightedAverage(ClaimedNeighbors, result.args.movie)

\* ================================================ predict_all_rankings alone
\* u.data files of at most MaxReviews rows
MaxReviews == 2
SmallTables ==
    {t \in [UserIds \X MovieIds -> 0..MaxRating] :
        Cardinality({c \in UserIds \X MovieIds : t[c] > 0}) <= MaxReviews}

InitPredict ==
    /\ \E table \in SmallTables :
          /\ reviews = LoadReviews(table, UserIds, MovieIds)
          /\ users = AscSeq(DOMAIN LoadReviews(table, UserIds, MovieIds))
    /\ \E order \in Perms(MovieIds) : movies = LoadMovies(order)
    /\ result = NoResult
    /\ FactorUnused

NextPredict ==
    \/ \E user \in UserArgs, metric \in MetricArgs, n \in NArgs :
          PredictAllRankings(user, metric, n)
    \/ Consume

SpecPredict == InitPredict /\ [][NextPredict]_vars

\* the score predict_ranking_user_based gives the movie for the call's user
Predicted(movie) ==
    PredictRankingUserBasedOut(result.args.user, movie, result.args.metric, NoCritics).val

\* position of a movie in the metadata, in load order
LoadPosition(movie) == CHOOSE i \in 1..Len(movies) : movies[i] = movie

\* the list returned by predict_all_rankings holds the top n (item, predicted
\* score) pairs in descending score order, equal scores ordered by TieBefore
TopNRanked(TieBefore(_, _)) ==
    (/\ result.op = "predict_all_rankings"
     /\ result.args.user \in UserSet
     /\ result.args.metric \in Metrics
     /\ result.args.n >= 1) =>
        /\ result.kind = "ok"
        /\ result.val.type = "list"
        /\ LET top == result.val.items
               listed == {top[i][1] : i \in 1..Len(top)}
           IN /\ Len(top) = Min(result.args.n, Len(movies))
              /\ \A i \in 1..Len(top) :
                    top[i][1] \in MovieSet /\ top[i][2] = Predicted(top[i][1])
              /\ \A i, j \in 1..Len(top) :
                    i < j => \/ top[i][2] > top[j][2]
                             \/ top[i][2] = top[j][2] /\ TieBefore(top[i][1], top[j][1])
              /\ \A i \in 1..Len(top) : \A m \in MovieSet \ listed :
                    \/ top[i][2] > Predicted(m)
                    \/ top[i][2] = Predicted(m) /\ TieBefore(top[i][1], m)

\* C6 (as claimed): predict_all_rankings(user, metric, n) with n given returns
\* the n pairs with the highest predicted scores in descending score order,
\* and among items with equal predicted score the smaller item_id comes
\* first, whatever the order in which items were loaded.
C6_TiesByAscendingId == TopNRanked(LAMBDA a, b : a < b)

\* C6 (amended): for a known user, a supported metric and n >= 1 the list
\* holds the min(n, number of items) pairs with the highest predicted scores
\* in descending score order, and among items with equal predicted score the
\* item loaded earlier into the store comes first.
C6_TiesByLoadOrder == TopNRanked(LAMBDA a, b : LoadPosition(a) < LoadPosition(b))

\* a returned top-n list in which two items tie on their predicted score and
\* the one with the larger id, loaded first, comes first
C6_Witness ==
    /\ result.op = "predict_all_rankings"
    /\ result.kind = "ok"
    /\ result.args.n >= 1
    /\ \E i, j \in 1..Len(result.val.items) :
          /\ i < j
          /\ result.val.items[i][2] = result.val.items[j][2]
          /\ result.val.items[i][1] > result.val.items[j][1]

\* ================================================= pearson_correlation alone
\* stores holding a pair of entities of one dimension, rated over at most
\* MaxShared entities of the other
MaxShared == 3
Pair == {1, 2}
Others == 1..MaxShared

InitPearson ==
    /\ \/ \E table \in [Pair \X Others -> 0..MaxRating] :
             /\ reviews = LoadReviews(table, Pair, Others)
             /\ users = AscSeq(DOMAIN LoadReviews(table, Pair, Others))
             /\ movies = LoadMovies(AscSeq(Others))
       \/ \E table \in [Others \X Pair -> 0..MaxRating] :
             /\ reviews = LoadReviews(table, Others, Pair)
             /\ users = AscSeq(DOMAIN LoadReviews(table, Others, Pair))
             /\ movies = LoadMovies(AscSeq(Pair))
    /\ result = NoResult
    /\ FactorUnused

NextPearson ==
    \/ \E a \in Pair, prefs \in {"critics", "movies"} :
          PearsonCorrelation(a, CHOOSE b \in Pair : \A x \in Pair : x <= b, prefs)
    \/ Consume

SpecPearson == InitPearson /\ [][NextPearson]_vars

\* the entity is in the store, in the dimension the call compares
Known(x, prefs) == IF prefs = "critics" THEN x \in UserSet ELSE x \in MovieSet

\* the shared preference set of the pearson_correlation call
CallPreferences == PreferencesOut(result.args.a, result.args.b, result.args.prefs).val
ConstantA(p) == \A k, l \in DOMAIN p : p[k][1] = p[l][1]
ConstantB(p) == \A k, l \in DOMAIN p : p[k][2] = p[l][2]

\* C10: for every pair of known entities in either dimension pearson_correlation
\* never fails (both variance terms n*sum(x^2) - (sum x)^2 are non-negative),
\* returns 0 when the shared preference set is empty or either shared score
\* vector is constant, and otherwise returns a value in [0, 1], i.e.
\* numerator^2 <= product of the two variance terms.
C10_PearsonDefinedAndBounded ==
    (/\ result.op = "pearson_correlation"
     /\ result.args.prefs \in {"critics", "movies"}
     /\ Known(result.args.a, result.args.prefs)
     /\ Known(result.args.b, result.args.prefs)) =>
        /\ result.kind = "ok"
        /\ VarianceA(CallPreferences) >= 0
        /\ VarianceB(CallPreferences) >= 0
        /\ IF \/ Length(CallPreferences) = 0
              \/ ConstantA(CallPreferences)
              \/ ConstantB(CallPreferences)
           THEN result.val = 0
           ELSE /\ result.val >= 0
                /\ result.val <= SCALE
                /\ Numerator(CallPreferences) * Numerator(CallPreferences)
                      <= VarianceA(CallPreferences) * VarianceB(CallPreferences)

\* a correlation strictly between 0 and 1 has been returned
C10_Witness ==
    /\ result.op = "pearson_correlation"
    /\ result.kind = "ok"
    /\ result.val > 0
    /\ result.val < SCALE
    /\ Length(CallPreferences) >= 3

\* ======================================================================= svd
\* matrices are sequences of rows; Q is kept as cols x K throughout (the code
\* works on Q.T and returns Q.T.T)
Rows(M) == Len(M)
Cols(M) == IF Len(M) = 0 THEN 0 ELSE Len(M[1])
Size(M) == Rows(M) * Cols(M)
ConstMatrix(n, m, v) == [i \in 1..n |-> [j \in 1..m |-> v]]

\* product of two fixed-point floats; product of a rational and a float
FMul(x, y) == (x * y) \div SCALE
Rat(r, x) == (r[1] * x) \div r[2]

RECURSIVE DotUpTo(_, _, _)
DotUpTo(p, q, k) ==
    IF k = 0 THEN 0 ELSE DotUpTo(p, q, k - 1) + FMul(p[k], q[k])
\* np.dot of two vectors
Dot(p, q) == DotUpTo(p, q, Len(p))

\* np.dot(P, Q.T)
MatMul(Pm, Qm) == [i \in 1..Rows(Pm) |-> [j \in 1..Rows(Qm) |-> Dot(Pm[i], Qm[j])]]

\* np.random.rand: the draw of generator state `seed` for entry (i, k), in [0, 1)
Rand(seed, i, k) == ((seed * 5 + i * 3 + k * 7) % 4) * (SCALE \div 4)

\* initialize(R, K)
Initialize(Rm, Kn, seed) ==
    [P |-> [i \in 1..Rows(Rm) |-> [k \in 1..Kn |-> Rand(seed, i, k)]],
     Q |-> [j \in 1..Cols(Rm) |-> [k \in 1..Kn |-> Rand(seed + 1, j, k)]]]

\* an optional matrix argument: None or a numpy array
NoneArg == [none |-> TRUE, m |-> <<>>]
Array(M) == [none |-> FALSE, m |-> M]

\* `not X` for X None or a numpy array: the truth value of an array of more
\* than one element is ambiguous and raises ValueError
NotOut(X) ==
    IF X.none THEN Ok(TRUE)
    ELSE IF Size(X.m) > 1 THEN Raise("ValueError")
    ELSE Ok(X.m[1][1] = 0)

\* `if not P or not Q: P, Q = initialize(R, K)`: what line 32 decides
EntryOut(P0, Q0) ==
    IF NotOut(P0).kind = "error" THEN NotOut(P0)
    ELSE IF NotOut(P0).val THEN Ok("initialize")
    ELSE IF NotOut(Q0).kind = "error" THEN NotOut(Q0)
    ELSE IF NotOut(Q0).val THEN Ok("initialize")
    ELSE Ok("keep")

\* the k loop of one rated cell: P[i, k] first, then Q[k, j] with the new P[i, k]
RECURSIVE UpdateK(_, _, _, _, _)
UpdateK(PQ, i, j, eij, k) ==
    IF k > K THEN PQ
    ELSE LET newP == PQ.P[i][k]
                       + Rat(alpha, 2 * FMul(eij, PQ.Q[j][k]) - Rat(beta, PQ.P[i][k]))
             newQ == PQ.Q[j][k]
                       + Rat(alpha, 2 * FMul(eij, newP) - Rat(beta, PQ.Q[j][k]))
         IN UpdateK([P |-> [PQ.P EXCEPT ![i][k] = newP],
                     Q |-> [PQ.Q EXCEPT ![j][k] = newQ]], i, j, eij, k + 1)

\* the update of one cell with R[i, j] > 0
UpdateCell(PQ, i, j) ==
    UpdateK(PQ, i, j, R[i][j] * SCALE - Dot(PQ.P[i], PQ.Q[j]), 1)

RECURSIVE SweepFrom_EveryCell(_, _)
\* the i, j loops without the test `if R[i, j] > 0`
SweepFrom_EveryCell(PQ, c) ==
    IF c > Size(R) THEN PQ
    ELSE SweepFrom_EveryCell(UpdateCell(PQ, ((c - 1) \div Cols(R)) + 1,
                                        ((c - 1) % Cols(R)) + 1), c + 1)
\* the i, j loops of one sweep, cell c onwards in row-major order
RECURSIVE SweepFrom(_, _)
SweepFrom(PQ, c) ==
    IF c > Size(R) THEN PQ
    ELSE LET i == ((c - 1) \div Cols(R)) + 1
             j == ((c - 1) % Cols(R)) + 1
         IN IF R[i][j] > 0 THEN SweepFrom(UpdateCell(PQ, i, j), c + 1)
            ELSE SweepFrom(PQ, c + 1)

RECURSIVE PenaltyUpTo(_, _, _)
\* the k loop of the error: (beta / 2) * (P[i, k]^2 + Q[k, j]^2)
PenaltyUpTo(p, q, k) ==
    IF k = 0 THEN 0
    ELSE PenaltyUpTo(p, q, k - 1)
           + Rat(<<beta[1], 2 * beta[2]>>, p[k] * p[k] + q[k] * q[k])

RECURSIVE ErrorFrom(_, _)
\* the error of one sweep, in units of 1 / SCALE^2
ErrorFrom(PQ, c) ==
    IF c > Size(R) THEN 0
    ELSE LET i == ((c - 1) \div Cols(R)) + 1
             j == ((c - 1) % Cols(R)) + 1
             d == R[i][j] * SCALE - Dot(PQ.P[i], PQ.Q[j])
         IN (IF R[i][j] > 0 THEN d * d + PenaltyUpTo(PQ.P[i], PQ.Q[j], K) ELSE 0)
              + ErrorFrom(PQ, c + 1)

\* `if e < 0.001: break`
Converged_Never(err) == FALSE
Converged(err) == err < (SCALE * SCALE) \div 1000

\* the locals of factor are gone once its caller has the result
DropFrame ==
    /\ R' = <<>> /\ P' = <<>> /\ Q' = <<>>
    /\ K' = 0 /\ steps' = 0 /\ alpha' = <<0, 1>> /\ beta' = <<0, 1>>
    /\ step' = 0 /\ e' = 0 /\ pc' = "idle"

Running(op, args) == [op |-> op, args |-> args, kind |-> "running", err |-> "", val |-> 0]

\* lines 32-36 of factor, entered with the given arguments
Enter(Rm, P0, Q0, Kn, nsteps, a, b, seed) ==
    /\ R' = Rm /\ K' = Kn /\ steps' = nsteps /\ alpha' = a /\ beta' = b
    /\ P' = IF EntryOut(P0, Q0).val = "keep" THEN P0.m ELSE Initialize(Rm, Kn, seed).P
    /\ Q' = IF EntryOut(P0, Q0).val = "keep" THEN Q0.m ELSE Initialize(Rm, Kn, seed).Q
    /\ step' = 0 /\ e' = 0
    /\ pc' = "loop"

\* svd.factor(R, P, Q, K, steps, alpha, beta), up to the head of its loop
Factor(Rm, P0, Q0, Kn, nsteps, a, b, seed) ==
    /\ Idle /\ pc = "idle"
    /\ LET args == [R |-> Rm, P |-> P0, Q |-> Q0, K |-> Kn, steps |-> nsteps,
                    alpha |-> a, beta |-> b, seed |-> seed]
       IN IF EntryOut(P0, Q0).kind = "error"
          THEN /\ result' = Called("factor", args, EntryOut(P0, Q0))
               /\ UNCHANGED <<R, P, Q, K, steps, alpha, beta, step, e, pc>>
          ELSE /\ result' = Running("factor", args)
               /\ Enter(Rm, P0, Q0, Kn, nsteps, a, b, seed)
    /\ UNCHANGED <<storeVars, recommender>>

\* `for step in range(steps)` has a next value
InLoop == pc = "loop" /\ step < steps

\* one pass of `for step in range(steps)`: the updates, then the error, then
\* the test that breaks out of the loop
Sweep ==
    /\ InLoop
    /\ LET PQ == SweepFrom([P |-> P, Q |-> Q], 1)
       IN /\ P' = PQ.P
          /\ Q' = PQ.Q
          /\ e' = ErrorFrom(PQ, 1)
          /\ pc' = IF Converged(ErrorFrom(PQ, 1)) THEN "break" ELSE "loop"
    /\ step' = step + 1
    /\ UNCHANGED <<storeVars, recommender, result, R, K, steps, alpha, beta>>

\* the loop is over: by break, or because range(steps) is exhausted
LoopOver == pc = "break" \/ (pc = "loop" /\ step = steps)

\* `return P, Q.T` to a direct caller
FactorReturn ==
    /\ result.op = "factor" /\ result.kind = "running"
    /\ LoopOver
    /\ result' = [result EXCEPT !.kind = "ok", !.val = [P |-> P, Q |-> Q]]
    /\ pc' = "idle"
    /\ UNCHANGED <<storeVars, recommender, R, P, Q, K, steps, alpha, beta, step, e>>

\* the caller takes the result; the frame of the finished call is gone
ConsumeFactor ==
    /\ ~Idle
    /\ pc = "idle"
    /\ result' = NoResult
    /\ DropFrame
    /\ UNCHANGED <<storeVars, recommender>>

\* ------------------------------------------------------ svd.factor, called
\* the arguments a caller may pass
MaxDim == 2
MaxCell == 1
MaxRated == 1
MaxSteps == 2
MaxSeed == 2

\* K=2, alpha=0.0002, beta=0.02: the defaults of factor
DefaultK == 2
DefaultAlpha == <<2, 10000>>
DefaultBeta == <<2, 100>>

RatedCells(M) == {c \in (1..Rows(M)) \X (1..Cols(M)) : M[c[1]][c[2]] > 0}
Matrices(n, m) == [1..n -> [1..m -> 0..MaxCell]]
RArgs ==
    UNION {{M \in Matrices(n, m) : Cardinality(RatedCells(M)) <= MaxRated} :
              n \in 1..MaxDim, m \in 1..MaxDim}
KArgs == {1, DefaultK}
HyperArgs == {<<DefaultAlpha, DefaultBeta>>, <<<<1, 10>>, <<0, 1>>>>}
\* None, or an array of the right shape
StartArgs(n, m) ==
    {NoneArg} \cup {Array(ConstMatrix(n, m, v)) : v \in {0, SCALE \div 2, (99 * SCALE) \div 100}}

StoreUnused == movies = <<>> /\ reviews = <<>> /\ users = <<>>

InitFactor ==
    /\ StoreUnused
    /\ result = NoResult
    /\ FactorUnused

NextFactor ==
    \/ /\ Idle
       /\ \E Rm \in RArgs, Kn \in KArgs, nsteps \in 0..MaxSteps, h \in HyperArgs,
             seed \in 1..MaxSeed :
             \E P0 \in StartArgs(Rows(Rm), Kn), Q0 \in StartArgs(Cols(Rm), Kn) :
                /\ seed = 1 \/ (EntryOut(P0, Q0).kind = "ok"
                                 /\ EntryOut(P0, Q0).val = "initialize")
                /\ Factor(Rm, P0, Q0, Kn, nsteps, h[1], h[2], seed)
    \/ Sweep
    \/ FactorReturn
    \/ ConsumeFactor

SpecFactor == InitFactor /\ [][NextFactor]_vars

\* e < 0.001, e in units of 1 / SCALE^2
BelowThreshold(err) == 1000 * (err \div SCALE) < SCALE

InFactor == result.op \in {"factor", "build"} /\ result.kind = "running"
FactorReturned == result.op = "factor" /\ result.kind = "ok"

\* the matrices the call started from: the supplied ones when line 32 keeps
\* them, those of initialize otherwise
StartPQ ==
    IF EntryOut(result.args.P, result.args.Q).val = "keep"
    THEN [P |-> result.args.P.m, Q |-> result.args.Q.m]
    ELSE Initialize(result.args.R, result.args.K, result.args.seed)

\* C8: factor always terminates (a call in progress can always take its next
\* sweep or return, and takes at most `steps` sweeps), stops immediately after
\* the first sweep whose total error e is below 0.001, never stops before
\* `steps` sweeps while every computed e is >= 0.001, and with steps = 0
\* returns the initial P and Q.
C8_FactorStopsAsSpecified ==
    /\ (result.op = "factor" /\ result.kind = "running") => (InLoop \/ LoopOver)
    /\ step <= steps
    /\ (InFactor /\ pc = "loop" /\ step >= 1) => ~BelowThreshold(e)
    /\ pc = "break" => (InFactor /\ step >= 1 /\ BelowThreshold(e))
    /\ ((InFactor \/ FactorReturned) /\ step >= 1) => e = ErrorFrom([P |-> P, Q |-> Q], 1)
    /\ FactorReturned =>
          /\ step = steps \/ BelowThreshold(e)
          /\ result.val = [P |-> P, Q |-> Q]
          /\ steps = 0 => result.val = StartPQ

\* factor has left its loop by break before range(steps) was exhausted, on an
\* error that is not zero
C8_Witness ==
    /\ FactorReturned
    /\ step >= 1
    /\ step < steps
    /\ e > 0

\* C9: when the caller supplies P0 (rows x K) and Q0 (cols x K) whose shapes
\* match R, factor raises no error and starts training from exactly those
\* matrices; only when P0 or Q0 is not supplied does it call initialize.
C9_SuppliedMatricesAreUsed ==
    (result.op = "factor" /\ ~result.args.P.none /\ ~result.args.Q.none) =>
        /\ result.kind # "error"
        /\ (result.kind = "running" /\ step = 0) =>
              (P = result.args.P.m /\ Q = result.args.Q.m)

\* a call of factor that has passed its entry test: in its loop, or returned
FactorCall == result.op = "factor" /\ result.kind \in {"running", "ok"}
RowRated(i) == \E j \in 1..Cols(R) : R[i][j] > 0
ColRated(j) == \E i \in 1..Rows(R) : R[i][j] > 0

\* factor does not write R, and writes row i of P (the factors of item j) only
\* when row i (column j) of R has a cell > 0
OnlyRatedFactorsWritten ==
    /\ R = result.args.R
    /\ \A i \in 1..Rows(R) : P[i] # StartPQ.P[i] => RowRated(i)
    /\ \A j \in 1..Cols(R) : Q[j] # StartPQ.Q[j] => ColRated(j)

MaxBuilds == 2

\* list.index: the position of x in the list
Index(seq, x) == CHOOSE i \in 1..Len(seq) : seq[i] = x

\* time.time() at the n-th reading of the clock that the object keeps
Tick(t) == IF t = NoneN THEN 1 ELSE t + 1

\* Recommender.load_dataset: sorted indexes of the users and movies that have
\* reviews, and the N x M array of ratings with 0 where there is no review
LoadDataset(table) ==
    LET us == AscSeq({u \in UserIds : \E m \in MovieIds : table[<<u, m>>] > 0})
        ms == AscSeq({m \in MovieIds : \E u \in UserIds : table[<<u, m>>] > 0})
    IN [users |-> us,
        movies |-> ms,
        reviews |-> [i \in 1..Len(us) |-> [j \in 1..Len(ms) |-> table[<<us[i], ms[j]>>]]]]

\* Recommender(udata): __init__, with the number of sweeps `nsteps` the caller
\* leaves in self.steps
NewRecommender(table, nsteps) ==
    [users |-> LoadDataset(table).users,
     movies |-> LoadDataset(table).movies,
     reviews |-> LoadDataset(table).reviews,
     build_start |-> NoneN,
     build_finish |-> NoneN,
     model |-> NoneArg,
     features |-> DefaultK,
     steps |-> nsteps,
     alpha |-> DefaultAlpha,
     beta |-> DefaultBeta]

\* a score: None, or a float
NoneScore == [none |-> TRUE, x |-> 0]
Score(v) == [none |-> FALSE, x |-> v]

\* Recommender.predict_ranking(user, movie)
PredictRankingOut_ModelValue(user, movie) ==
    IF user \notin Range(recommender.users) \/ movie \notin Range(recommender.movies)
    THEN Raise("ValueError")
    ELSE IF recommender.model.none THEN Raise("TypeError")
    ELSE Ok(Score(recommender.model.m[Index(recommender.users, user)]
                                     [Index(recommender.movies, movie)]))
PredictRankingOut(user, movie) ==
    IF user \notin Range(recommender.users) \/ movie \notin Range(recommender.movies)
    THEN Raise("ValueError")
    ELSE LET uid == Index(recommender.users, user)
             mid == Index(recommender.movies, movie)
         IN IF recommender.reviews[uid][mid] > 0 THEN Ok(NoneScore)
            ELSE IF recommender.model.none THEN Raise("TypeError")
            ELSE Ok(Score(recommender.model.m[uid][mid]))

PredictRanking(user, movie) ==
    /\ Idle /\ pc = "idle"
    /\ result' = Called("predict_ranking", [user |-> user, movie |-> movie],
                        PredictRankingOut(user, movie))
    /\ UNCHANGED <<storeVars, factorVars>>

\* Recommender.build(), up to the head of the loop of svd.factor
Build(seed) ==
    /\ Idle /\ pc = "idle"
    /\ Tick(recommender.build_start) <= MaxBuilds
    /\ recommender' = [recommender EXCEPT !.build_start = Tick(recommender.build_start)]
    /\ result' = Running("build", [seed |-> seed])
    /\ Enter(recommender.reviews, NoneArg, NoneArg, recommender.features,
             recommender.steps, recommender.alpha, recommender.beta, seed)
    /\ UNCHANGED storeVars

\* svd.factor returns to build: the model is np.dot(P, Q.T)
BuildReturn ==
    /\ result.op = "build" /\ result.kind = "running"
    /\ LoopOver
    /\ recommender' = [recommender EXCEPT !.model = Array(MatMul(P, Q)),
                                          !.build_finish = Tick(recommender.build_finish)]
    /\ result' = [result EXCEPT !.kind = "ok", !.val = NoneN]
    /\ pc' = "idle"
    /\ UNCHANGED <<storeVars, R, P, Q, K, steps, alpha, beta, step, e>>

InitRecommender ==
    /\ StoreUnused
    /\ \E table \in SmallTables, nsteps \in {0, MaxSteps} :
          recommender = NewRecommender(table, nsteps)
    /\ result = NoResult
    /\ R = <<>> /\ P = <<>> /\ Q = <<>>
    /\ K = 0 /\ steps = 0 /\ alpha = <<0, 1>> /\ beta = <<0, 1>>
    /\ step = 0 /\ e = 0 /\ pc = "idle"

NextRecommender ==
    \/ /\ Idle
       /\ \E seed \in 1..MaxSeed : Build(seed)
    \/ Sweep
    \/ BuildReturn
    \/ /\ Idle
       /\ \E user \in UserArgs, movie \in MovieArgs : PredictRanking(user, movie)
    \/ ConsumeFactor

SpecRecommender == InitRecommender /\ [][NextRecommender]_vars

\* build has completed
Trained == recommender.build_finish # NoneN

\* C7: once build has completed, predict_ranking(user, movie) for a known user
\* and movie returns None if and only if the cell of the reviews array is
\* nonzero, and otherwise the entry of the model, which build set to
\* dot(P[user, :], Q[movie, :]); the same holds after a second build.
C7_PredictAfterBuild ==
    /\ (result.op = "build" /\ result.kind = "ok") =>
          /\ Trained
          /\ recommender.model = Array(MatMul(P, Q))
          /\ \A i \in 1..Len(recommender.users), j \in 1..Len(recommender.movies) :
                recommender.model.m[i][j] = Dot(P[i], Q[j])
    /\ (/\ result.op = "predict_ranking"
        /\ Trained
        /\ result.args.user \in Range(recommender.users)
        /\ result.args.movie \in Range(recommender.movies)) =>
          LET uid == Index(recommender.users, result.args.user)
              mid == Index(recommender.movies, result.args.movie)
          IN /\ result.kind = "ok"
             /\ result.val.none <=> recommender.reviews[uid][mid] # 0
             /\ ~result.val.none => result.val.x = recommender.model.m[uid][mid]

\* after a second build, predict_ranking has returned the model's value for a
\* cell the user has not rated
C7_Witness ==
    /\ result.op = "predict_ranking"
    /\ result.kind = "ok"
    /\ ~result.val.none
    /\ recommender.build_finish = 2

\* ----------------------------------------------------- Recommender.top_rated
\* [(mid, self.predict_ranking(user, mid)) for mid in self.movies], the first
\* k movies: the outcomes of the calls of predict_ranking
Outcomes(user) ==
    [k \in 1..Len(recommender.movies) |-> PredictRankingOut(user, recommender.movies[k])]
Failed(user) == {k \in 1..Len(recommender.movies) : Outcomes(user)[k].kind = "error"}
ScoredMovies(user) ==
    [k \in 1..Len(recommender.movies) |-> <<recommender.movies[k], Outcomes(user)[k].val>>]

\* the pairs with the float in place of the score, for the comparisons of keys
Floats(pairs) == [k \in 1..Len(pairs) |-> <<pairs[k][1], pairs[k][2].x>>]
Scored(pairs) == [k \in 1..Len(pairs) |-> <<pairs[k][1], Score(pairs[k][2])>>]

\* heapq.nlargest(n, pairs, key=itemgetter(1)) over scores that may be None:
\* nothing is compared for n <= 0 or fewer than two pairs; otherwise every
\* pair's key takes part in a comparison, and None compares with nothing
NLargestOut(n, pairs) ==
    IF n <= 0 THEN Ok(List(<<>>))
    ELSE IF Len(pairs) <= 1 THEN Ok(List(pairs))
    ELSE IF \E k \in 1..Len(pairs) : pairs[k][2].none THEN Raise("TypeError")
    ELSE Ok(List(Scored(NLargest(n, Floats(pairs)))))

\* Recommender.top_rated(user, n)
RecommenderTopRatedOut(user, n) ==
    IF Failed(user) # {}
    THEN Outcomes(user)[CHOOSE k \in Failed(user) : \A l \in Failed(user) : k <= l]
    ELSE NLargestOut(n, ScoredMovies(user))

RecommenderTopRated(user, n) ==
    /\ Idle /\ pc = "idle"
    /\ result' = Called("Recommender.top_rated", [user |-> user, n |-> n],
                        RecommenderTopRatedOut(user, n))
    /\ UNCHANGED <<storeVars, factorVars>>

NextTopRated ==
    \/ /\ Idle
       /\ \E seed \in 1..MaxSeed : Build(seed)
    \/ Sweep
    \/ BuildReturn
    \/ /\ Idle
       /\ \E user \in UserArgs, n \in 0..MaxN : RecommenderTopRated(user, n)
    \/ ConsumeFactor

SpecTopRated == InitRecommender /\ [][NextTopRated]_vars

\* the movies the user of the call has rated
RatedBy(user) ==
    {recommender.movies[j] : j \in {l \in 1..Len(recommender.movies) :
        recommender.reviews[Index(recommender.users, user)][l] > 0}}

\* C12: after build has completed, Recommender.top_rated(user, n) for a known
\* user and n >= 1 returns without error a list of at most n (movie id,
\* predicted score) pairs in descending order of predicted score, holding no
\* movie the user has rated and no pair whose score is None.
C12_TopRatedSkipsRated ==
    (/\ result.op = "Recommender.top_rated"
     /\ Trained
     /\ result.args.user \in Range(recommender.users)
     /\ result.args.n >= 1) =>
        /\ result.kind = "ok"
        /\ Len(result.val.items) <= result.args.n
        /\ \A k \in 1..Len(result.val.items) :
              /\ ~result.val.items[k][2].none
              /\ result.val.items[k][1] \notin RatedBy(result.args.user)
        /\ \A k \in 1..(Len(result.val.items) - 1) :
              result.val.items[k][2].x >= result.val.items[k + 1][2].x

====
